---- MODULE Spec2Model ----
(***************************************************************************)
(* WatchDog (src/index.js): a Discord moderation-audit bot.  The model     *)
(* covers the config store and nickname history (loadConfig, saveConfig,   *)
(* recordNickname), log delivery (logEvent), the audit-trail lookup        *)
(* (getAuditLogExecutor), the invite snapshot (cacheInvites and the        *)
(* guildMemberAdd handler) and the event handlers that use them.           *)
(*                                                                         *)
(* Conventions.  JavaScript objects used as maps are functions whose       *)
(* DOMAIN is the set of keys present; {} is the empty function <<>>.       *)
(* Strings the code only compares (ids, titles, colours) are TLA+ strings. *)
(* Nicknames are the numbers 1..N, and 0 stands for a falsy nickname       *)
(* (null or "").  An async function is cut at its awaits: the code up to   *)
(* the first await runs in the step that calls it, and the code after an   *)
(* await runs in the step in which the awaited call settles.               *)
(***************************************************************************)
EXTENDS Integers, Sequences, FiniteSets, Bags, TLC

VARIABLES
    guildConfig,      \* let guildConfig: guild id -> log channel id
    nicknameHistory,  \* let nicknameHistory: guild id -> (user id -> list)
    configFile,       \* config.json on disk
    nicknameFile,     \* nicknameHistory.json on disk
    inflight,         \* logEvent calls past their first line, not yet settled
    invites,          \* client.invites: guild id -> the Collection cached for it
    heap,             \* the cached Collections: object -> (invite code -> uses)
    primed,           \* the guilds cacheInvites has run for
    joins,            \* guildMemberAdd handlers awaiting guild.invites.fetch()
    lastJoin,         \* the latest guildMemberAdd run that ended
    lastLog,          \* the latest logEvent call that ended
    lastNick,         \* the latest recordNickname call: its arguments
    lastLoad,         \* the latest loadConfig(): what it read and loaded
    lastCmd,          \* the latest messageCreate run: its input and effects
    platform,         \* the guild's invites as the platform has them, and
                      \* the invite each member consumed when joining
    lastAudit         \* the latest run of a handler that consults the audit log

vars == <<guildConfig, nicknameHistory, configFile, nicknameFile, inflight,
          invites, heap, primed, joins, lastJoin, lastLog, lastNick, lastLoad, lastCmd, platform, lastAudit>>

storeVars == <<guildConfig, nicknameHistory, configFile, nicknameFile>>
inviteVars == <<invites, heap, primed, joins, lastJoin>>

-----------------------------------------------------------------------------
(* Values *)

Null == "null"

Guilds == {"g1", "g2"}
Users == {"u1", "u2"}

\* recordNickname keeps "the last 20 nicknames"
HistoryLimit == 20

\* Nicknames: one more than the history can hold, so that the oldest entry
\* is dropped and a dropped nickname can come back.
Nicknames == 1..(HistoryLimit + 1)

\* !nickname: null and "" are both falsy
Falsy(v) == v = 0

-----------------------------------------------------------------------------
(* Maps and lists as JavaScript uses them *)

EmptyMap == <<>>

Has(m, k) == k \in DOMAIN m

Put(m, k, v) == [x \in (DOMAIN m) \cup {k} |-> IF x = k THEN v ELSE m[x]]

Delete(m, k) == [x \in (DOMAIN m) \ {k} |-> m[x]]

Range(s) == {s[i] : i \in DOMAIN s}

\* Array.prototype.includes
Includes(list, v) == \E i \in 1..Len(list) : list[i] = v

\* Array.prototype.push, where unshift was meant
PushBack(list, v) == list \o <<v>>

\* Array.prototype.unshift: the new element goes to the front
Unshift(list, v) == <<v>> \o list

\* slice(0, n) left out
SliceNothing(list, n) == list

\* Array.prototype.slice(0, n)
SliceFront(list, n) == IF Len(list) <= n THEN list ELSE SubSeq(list, 1, n)

\* Array.prototype.slice(1)
SliceRest(list) == IF Len(list) = 0 THEN <<>> ELSE SubSeq(list, 2, Len(list))

-----------------------------------------------------------------------------
(* Files.  A file either does not exist or holds a JSON text.  The text of *)
(* an object is the set of its "key": value members; guildConfig holds     *)
(* strings under string keys and nicknameHistory arrays of strings under   *)
(* two levels of string keys, so JSON.stringify writes every member.       *)

\* `valid` tells whether the file can be read and its text parsed.
NoFile == [exists |-> FALSE, valid |-> TRUE, text |-> {}]

\* JSON.stringify writing no member at all
StringifyNothing(obj) == {}

\* JSON.stringify of a flat object of strings
StringifyConfig(obj) == {<<k, obj[k]>> : k \in DOMAIN obj}

\* JSON.parse of such a text
ParseConfig(text) ==
    [k \in {m[1] : m \in text} |-> (CHOOSE m \in text : m[1] = k)[2]]

\* JSON.stringify of one guild's user -> array object
StringifyUsers(obj) == {<<u, obj[u]>> : u \in DOMAIN obj}

ParseUsers(text) ==
    [u \in {m[1] : m \in text} |-> (CHOOSE m \in text : m[1] = u)[2]]

\* JSON.stringify of guild -> user -> array
StringifyHistory(obj) == {<<g, StringifyUsers(obj[g])>> : g \in DOMAIN obj}

ParseHistory(text) ==
    [g \in {m[1] : m \in text} |->
        ParseUsers((CHOOSE m \in text : m[1] = g)[2])]

\* fs.writeFileSync(CONFIG_FILE, JSON.stringify(guildConfig, null, 2))
WriteConfigFile(cfg) ==
    [exists |-> TRUE, valid |-> TRUE, text |-> StringifyConfig(cfg)]

\* fs.writeFileSync(NICKNAME_HISTORY_FILE, JSON.stringify(nicknameHistory, null, 2))
WriteNicknameFile(hist) ==
    [exists |-> TRUE, valid |-> TRUE, text |-> StringifyHistory(hist)]

\* A loadConfig() whose failure empties only the store of the file that
\* could not be read
LoadConfigKeepsLoaded(cfgFile, nickFile, cfg, hist) ==
    [guildConfig |->
        IF ~cfgFile.exists THEN cfg
        ELSE IF cfgFile.valid THEN ParseConfig(cfgFile.text) ELSE EmptyMap,
     nicknameHistory |->
        IF ~nickFile.exists THEN hist
        ELSE IF nickFile.valid THEN ParseHistory(nickFile.text) ELSE EmptyMap]

\* loadConfig(): a store whose file exists is replaced by the parsed text,
\* the other one is kept; when reading or parsing either existing file
\* throws, the catch block empties both stores.
LoadConfigResult(cfgFile, nickFile, cfg, hist) ==
    IF (cfgFile.exists /\ ~cfgFile.valid) \/ (nickFile.exists /\ ~nickFile.valid)
    THEN [guildConfig |-> EmptyMap, nicknameHistory |-> EmptyMap]
    ELSE [guildConfig |->
             IF cfgFile.exists THEN ParseConfig(cfgFile.text) ELSE cfg,
          nicknameHistory |->
             IF nickFile.exists THEN ParseHistory(nickFile.text) ELSE hist]

\* saveConfig() with both writes left out
SaveNothing(cfg, hist) == UNCHANGED <<configFile, nicknameFile>>

\* saveConfig(): both files are rewritten from memory.  The writes are taken
\* to succeed; the catch branch only prints.
saveConfig(cfg, hist) ==
    /\ configFile' = WriteConfigFile(cfg)
    /\ nicknameFile' = WriteNicknameFile(hist)

-----------------------------------------------------------------------------
(* recordNickname *)

\* The list stored for a user, or [] (nicknameHistory[guildId]?.[userId] || [])
StoredList(hist, guildId, userId) ==
    IF Has(hist, guildId) /\ Has(hist[guildId], userId)
    THEN hist[guildId][userId]
    ELSE <<>>

\* What one call leaves in nicknameHistory, and whether it called saveConfig.
RecordNicknameResult(hist, guild, member, nickname) ==
    IF guild = Null \/ member = Null \/ Falsy(nickname)
    THEN [hist |-> hist, saved |-> FALSE]
    ELSE LET h1 == IF Has(hist, guild) THEN hist ELSE Put(hist, guild, EmptyMap)
             h2 == IF Has(h1[guild], member) THEN h1
                   ELSE Put(h1, guild, Put(h1[guild], member, <<>>))
             list == h2[guild][member]
         IN  IF ~Falsy(nickname) /\ ~Includes(list, nickname)
             THEN [hist |-> Put(h2, guild, Put(h2[guild], member,
                                SliceFront(Unshift(list, nickname), HistoryLimit))),
                   saved |-> TRUE]
             ELSE [hist |-> h2, saved |-> FALSE]

\* recordNickname(guild, member, nickname) as a step of the program
recordNickname(guild, member, nickname) ==
    LET r == RecordNicknameResult(nicknameHistory, guild, member, nickname)
    IN  /\ nicknameHistory' = r.hist
        /\ IF r.saved
           THEN saveConfig(guildConfig, r.hist)
           ELSE UNCHANGED <<configFile, nicknameFile>>

\* Nickname strings matter to the code only through equality and falsiness,
\* so a call is given a falsy value, a nickname already in the list (its
\* newest, its middle or its oldest entry), or the least nickname not in
\* the list.
NicknameArgs(list) ==
    LET free == Nicknames \ Range(list)
        n == Len(list)
    IN  {0}
        \cup (IF n = 0 THEN {} ELSE {list[1], list[(n + 1) \div 2], list[n]})
        \cup (IF free = {} THEN {}
              ELSE {CHOOSE x \in free : \A y \in free : x <= y})

\* The guild whose members change nicknames
NickGuilds == {"g1"}

RecordNicknameCall ==
    \E guild \in NickGuilds \cup {Null}, member \in Users \cup {Null} :
      \E nickname \in NicknameArgs(StoredList(nicknameHistory, guild, member)) :
        /\ recordNickname(guild, member, nickname)
        /\ lastNick' = [guild |-> guild, member |-> member, nickname |-> nickname]
        /\ UNCHANGED <<guildConfig, inflight, lastAudit, lastLog, lastLoad, lastCmd, platform,
                       inviteVars>>

-----------------------------------------------------------------------------
(* logEvent *)

\* How many logEvent calls may be awaiting their channel fetch or send
MaxInflight == 2

\* logEvent without `if (!channelId) return`
LogEventCallsUnguarded(guild, n) ==
    IF n > 0
    THEN /\ BagCardinality(inflight) + n <= MaxInflight
         /\ inflight' = inflight (+)
               [e \in {[guild |-> guild,
                         channelId |-> IF Has(guildConfig, guild)
                                       THEN guildConfig[guild] ELSE Null,
                         phase |-> "fetch"]} |-> n]
    ELSE UNCHANGED inflight

\* logEvent up to its first await: read the guild's channel id and return if
\* there is none; otherwise the call is in flight with that channel id.
\* `n` records are handed over by one handler run, one call each.
LogEventCalls(guild, n) ==
    IF Has(guildConfig, guild) /\ n > 0
    THEN /\ BagCardinality(inflight) + n <= MaxInflight
         /\ inflight' = inflight (+)
               [e \in {[guild |-> guild, channelId |-> guildConfig[guild],
                         phase |-> "fetch"]} |-> n]
    ELSE UNCHANGED inflight

-----------------------------------------------------------------------------
(* getAuditLogExecutor *)

Channels == {"c1", "c2"}
Roles == {"r1", "r2"}
\* "the action must have happened very recently": Date.now() - created < 5000
RecencyWindow == 5000

\* Date.now() at the lookup, and the createdTimestamp of fetched entries:
\* ages one below, at and one above the window.
NowValue == 2 * RecencyWindow
CreatedValues == {NowValue - (RecencyWindow - 1), NowValue - RecencyWindow,
                  NowValue - (RecencyWindow + 1)}

\* An audit-log kind no handler asks for
OtherKind == "Other"

\* The users who act as moderators; the entry at position i of a fetch was
\* made by the i-th of them, so the entries of one fetch differ in executor.
ModeratorNames == <<"m1", "m2", "m3", "m4", "m5">>

\* The reason an entry carries: a text for the actions on these targets,
\* none (null) for the others
TargetsWithReason == {"u2", "c2", "r2", "g2"}

ReasonFor(targets, t) == IF t \in TargetsWithReason THEN "spam" ELSE Null

\* How many entries a modelled fetch returns at most (the code asks for 5)
MaxEntries == 2

\* What tells the entries of a fetch apart for the lookup
EntryShapes(types, targets) ==
    [action : types \cup {OtherKind}, targetId : targets,
     createdTimestamp : CreatedValues]

\* guild.fetchAuditLogs(...) settles: rejected, or fulfilled with entries,
\* most recent first.
AuditFetchesUpTo(types, targets, n) ==
    {[ok |-> FALSE, entries |-> <<>>]}
    \cup UNION {
          {[ok |-> TRUE,
            entries |-> [i \in 1..k |->
               [action |-> shapes[i].action,
                targetId |-> shapes[i].targetId,
                createdTimestamp |-> shapes[i].createdTimestamp,
                executor |-> ModeratorNames[i],
                reason |-> ReasonFor(targets, shapes[i].targetId)]]] :
             shapes \in [1..k -> EntryShapes(types, targets)]} :
          k \in 0..n}

AuditFetches(types, targets) == AuditFetchesUpTo(types, targets, MaxEntries)

NoReasonInAuditLog == "No reason provided in Audit Log."

\* The predicate of fetchedLogs.entries.find, with <= for <
QualifiesInclusive(a, types, targetId, now) ==
    /\ a.action \in types
    /\ (targetId = Null \/ a.targetId = targetId)
    /\ now - a.createdTimestamp <= RecencyWindow

\* The predicate of fetchedLogs.entries.find, without the target test
QualifiesAnyTarget(a, types, targetId, now) ==
    /\ a.action \in types
    /\ now - a.createdTimestamp < RecencyWindow

\* The predicate of fetchedLogs.entries.find
Qualifies(a, types, targetId, now) ==
    /\ a.action \in types
    /\ (targetId = Null \/ a.targetId = targetId)
    /\ now - a.createdTimestamp < RecencyWindow

\* Array.prototype.find from the back
RECURSIVE FindLastFrom(_, _, _, _, _)
FindLastFrom(entries, i, types, targetId, now) ==
    IF i < 1 THEN 0
    ELSE IF Qualifies(entries[i], types, targetId, now) THEN i
    ELSE FindLastFrom(entries, i - 1, types, targetId, now)

FindLast(entries, types, targetId, now) ==
    FindLastFrom(entries, Len(entries), types, targetId, now)

\* Array.prototype.find: the index of the first entry the predicate accepts,
\* 0 for undefined
RECURSIVE FindFrom(_, _, _, _, _)
FindFrom(entries, i, types, targetId, now) ==
    IF i > Len(entries) THEN 0
    ELSE IF Qualifies(entries[i], types, targetId, now) THEN i
    ELSE FindFrom(entries, i + 1, types, targetId, now)

Find(entries, types, targetId, now) == FindFrom(entries, 1, types, targetId, now)

Fulfilled(executor, reason) ==
    [settled |-> "fulfilled", executor |-> executor, reason |-> reason]

\* The promise rejects: the catch block reads `types`, a const of the try
\* block that is not in scope there, so it throws a ReferenceError.
Rejected == [settled |-> "rejected", executor |-> Null, reason |-> Null]

NoLookup == [settled |-> "none", executor |-> Null, reason |-> Null]

\* getAuditLogExecutor(guild, type, targetId) given how the fetch settles.
\* `types` is the array the code makes of `type`.
getAuditLogExecutor(fetch, types, targetId, now) ==
    IF fetch.ok
    THEN LET i == Find(fetch.entries, types, targetId, now)
         IN  IF i = 0 THEN Fulfilled(Null, Null)
             ELSE Fulfilled(fetch.entries[i].executor,
                            IF fetch.entries[i].reason = Null
                            THEN NoReasonInAuditLog
                            ELSE fetch.entries[i].reason)
    ELSE Rejected

-----------------------------------------------------------------------------
(* Handlers that consult the audit log.  Each runs up to its await of      *)
(* getAuditLogExecutor when the event arrives and reads only the event     *)
(* until then; the step below is the one in which the lookup settles.      *)

\* lastAudit holds one run at a time (see ClearAudit)
SlotFree == lastAudit.handler = "none"

Record(title, color, mod, reason) ==
    [title |-> title, color |-> color, mod |-> mod, reason |-> reason]

\* One run of a handler: what it looked up, how the lookup settled, whether
\* the handler's own promise was fulfilled and what it handed to logEvent.
AuditRun(handler, guild, event, types, targetId, fetch, result, outcome, emitted) ==
    /\ lastAudit' = [handler |-> handler, guild |-> guild, event |-> event,
                     types |-> types, targetId |-> targetId, fetch |-> fetch,
                     now |-> NowValue, result |-> result,
                     outcome |-> outcome, emitted |-> emitted]
    /\ LogEventCalls(guild, Len(emitted))
    /\ UNCHANGED <<storeVars, lastNick, lastLoad, lastCmd, platform, lastLog, inviteVars>>

\* A handler made of one awaited lookup followed by one logEvent call
\* `r` is what the lookup settled to and `record` the record built from it.
LookupThenLog(handler, guild, event, type, targetId, fetch, r, record) ==
    IF r.settled = "rejected"
    THEN AuditRun(handler, guild, event, {type}, targetId, fetch, r,
                  "rejected", <<>>)
    ELSE AuditRun(handler, guild, event, {type}, targetId, fetch, r,
                  "fulfilled", <<record>>)

\* await getAuditLogExecutor(guild, type, targetId) in a handler
Lookup(fetch, type, targetId) ==
    getAuditLogExecutor(fetch, {type}, targetId, NowValue)

NoReason == "No reason provided."

\* client.on('guildMemberRemove')
MemberRemoveRecord(r) ==
    IF r.executor # Null
    THEN Record("Member Kicked", "Orange", r.executor,
                IF r.reason = Null THEN NoReason ELSE r.reason)
    ELSE Record("Member Left/Quit", "Red", Null, Null)

GuildMemberRemove ==
    /\ SlotFree
    /\ \E guild \in Guilds, member \in Users :
      \E fetch \in AuditFetches({"MemberKick"}, Users) :
        LookupThenLog(
                  "guildMemberRemove", guild, [member |-> member],
                  "MemberKick", member, fetch,
                  Lookup(fetch, "MemberKick", member),
                  MemberRemoveRecord(Lookup(fetch, "MemberKick", member)))

\* client.on('guildBanAdd')
GuildBanAdd ==
    /\ SlotFree
    /\ \E guild \in Guilds, user \in Users, banReason \in {Null, "raid"} :
      \E fetch \in AuditFetches({"MemberBanAdd"}, Users) :
        LET BanRecord(r) ==
              Record("User Banned", "DarkRed",
                     IF r.executor # Null THEN r.executor ELSE "Unknown",
                     IF r.reason # Null THEN r.reason
                     ELSE IF banReason # Null THEN banReason ELSE NoReason)
        IN  LookupThenLog(
                  "guildBanAdd", guild, [user |-> user, reason |-> banReason],
                  "MemberBanAdd", user, fetch,
                  Lookup(fetch, "MemberBanAdd", user),
                  BanRecord(Lookup(fetch, "MemberBanAdd", user)))

\* client.on('guildBanRemove')
UnbanRecord(r) ==
    Record("User Unbanned", "Yellow",
           IF r.executor # Null THEN r.executor ELSE "Unknown", Null)

GuildBanRemove ==
    /\ SlotFree
    /\ \E guild \in Guilds, user \in Users :
      \E fetch \in AuditFetches({"MemberBanRemove"}, Users) :
        LookupThenLog(
                  "guildBanRemove", guild, [user |-> user],
                  "MemberBanRemove", user, fetch,
                  Lookup(fetch, "MemberBanRemove", user),
                  UnbanRecord(Lookup(fetch, "MemberBanRemove", user)))

\* A handler that returns before any lookup
ReturnEarly(handler, guild, event) ==
    AuditRun(handler, guild, event, {}, Null, [ok |-> TRUE, entries |-> <<>>],
             NoLookup, "fulfilled", <<>>)

\* client.on('channelDelete')
ChannelDeletedRecord(r) == Record("Channel Deleted", "Red", r.executor, Null)

ChannelDelete ==
    /\ SlotFree
    /\ \E guild \in Guilds \cup {Null}, channel \in Channels :
      \E fetch \in AuditFetches({"ChannelDelete"}, Channels) :
        IF guild = Null
        THEN /\ fetch = [ok |-> FALSE, entries |-> <<>>]
             /\ ReturnEarly("channelDelete", guild, [channel |-> channel])
        ELSE LookupThenLog(
                  "channelDelete", guild, [channel |-> channel],
                  "ChannelDelete", channel, fetch,
                  Lookup(fetch, "ChannelDelete", channel),
                  ChannelDeletedRecord(Lookup(fetch, "ChannelDelete", channel)))

\* client.on('roleDelete')
RoleDeletedRecord(r) == Record("Role Deleted", "Red", r.executor, Null)

RoleDelete ==
    /\ SlotFree
    /\ \E guild \in Guilds, role \in Roles :
      \E fetch \in AuditFetches({"RoleDelete"}, Roles) :
        LookupThenLog(
                  "roleDelete", guild, [role |-> role],
                  "RoleDelete", role, fetch,
                  Lookup(fetch, "RoleDelete", role),
                  RoleDeletedRecord(Lookup(fetch, "RoleDelete", role)))

\* Who wrote a deleted message: unknown (not cached), a person, this bot or
\* another bot
Authors == {"unknown", "human", "self", "otherbot"}

AuthorKnown(author) == author # "unknown"
AuthorIsBot(author) == author \in {"self", "otherbot"}
AuthorIsClient(author) == author = "self"

\* message.author && message.author.bot && message.author.id !== client.user.id
IsOtherBot(author) ==
    AuthorKnown(author) /\ AuthorIsBot(author) /\ ~AuthorIsClient(author)

\* client.on('messageDelete')
MessageDeletedRecord(r) == Record("Message Deleted", "Red", Null, Null)

MessageDelete ==
    /\ SlotFree
    /\ \E guild \in Guilds \cup {Null}, channel \in Channels, author \in Authors :
      \E fetch \in AuditFetches({"MessageBulkDelete"}, Channels) :
        LET event == [channel |-> channel, author |-> author]
            r == getAuditLogExecutor(fetch, {"MessageBulkDelete"}, channel, NowValue)
        IN  IF guild = Null \/ IsOtherBot(author)
            THEN /\ fetch = [ok |-> FALSE, entries |-> <<>>]
                 /\ ReturnEarly("messageDelete", guild, event)
            ELSE IF r.settled = "rejected"
            THEN AuditRun("messageDelete", guild, event, {"MessageBulkDelete"},
                          channel, fetch, r, "rejected", <<>>)
            ELSE IF r.executor # Null
            THEN AuditRun("messageDelete", guild, event, {"MessageBulkDelete"},
                          channel, fetch, r, "fulfilled", <<>>)
            ELSE AuditRun("messageDelete", guild, event, {"MessageBulkDelete"},
                          channel, fetch, r, "fulfilled",
                          <<MessageDeletedRecord(r)>>)

\* The fields of a guild that guildUpdate compares.  The old guild is this
\* one; the new guild takes each field from two values.
GuildBefore ==
    [name |-> "n1", icon |-> "i1", verificationLevel |-> "Low",
     systemChannelId |-> "c1"]

GuildsAfter ==
    [name : {"n1", "n2"}, icon : {"i1", "i2"},
     verificationLevel : {"Low", "High"}, systemChannelId : {"c1", Null}]

\* Every test pushes its change, whether the field differs or not
ChangesAll(tests) == tests

\* changes.push(...) for each field that differs, in the order of the tests
Changes(tests) == SelectSeq(tests, LAMBDA t : t[2])

ChangeNames(tests) == [i \in 1..Len(Changes(tests)) |-> Changes(tests)[i][1]]

GuildChanges(old, new) ==
    ChangeNames(<< <<"name", old.name # new.name>>,
                   <<"icon", old.icon # new.icon>>,
                   <<"verificationLevel",
                     old.verificationLevel # new.verificationLevel>>,
                   <<"systemChannelId",
                     old.systemChannelId # new.systemChannelId>> >>)

\* client.on('guildUpdate')
GuildUpdatedRecord(r) ==
    Record("Server Settings Updated", "DarkGreen",
           IF r.executor # Null THEN r.executor ELSE "Unknown/Automatic", Null)

GuildUpdate ==
    /\ SlotFree
    /\ \E guild \in Guilds, new \in GuildsAfter :
      \E fetch \in AuditFetches({"GuildUpdate"}, Guilds) :
        LET changes == GuildChanges(GuildBefore, new)
        IN  IF Len(changes) = 0
            THEN /\ fetch = [ok |-> FALSE, entries |-> <<>>]
                 /\ ReturnEarly("guildUpdate", guild,
                                [old |-> GuildBefore, new |-> new,
                                 changes |-> changes])
            ELSE LookupThenLog(
                  "guildUpdate", guild,
                  [old |-> GuildBefore, new |-> new, changes |-> changes],
                  "GuildUpdate", Null, fetch,
                  Lookup(fetch, "GuildUpdate", Null),
                  GuildUpdatedRecord(Lookup(fetch, "GuildUpdate", Null)))

-----------------------------------------------------------------------------
(* channelUpdate and roleUpdate: the handlers that compare an old and a    *)
(* new snapshot field by field, like guildUpdate above.                    *)

\* How many entries a fetch made by these handlers returns at most
MaxUpdateEntries == 1

UpdateFetches(type, targets) == AuditFetchesUpTo({type}, targets, MaxUpdateEntries)

\* A permission overwrite of a channel: allow.bitfield and deny.bitfield
Overwrite(allow, deny) == [allow |-> allow, deny |-> deny]

\* permissionOverwrites.cache of the old channel: one overwrite, for r1
OverwritesBefore == [id \in {"r1"} |-> Overwrite(1, 0)]

\* permissionOverwrites.cache of the new channel: the same, a changed allow
\* or deny, none, one for another role, or two
OverwritesAfter ==
    {OverwritesBefore,
     [id \in {"r1"} |-> Overwrite(3, 0)],
     [id \in {"r1"} |-> Overwrite(1, 2)],
     EmptyMap,
     [id \in {"r2"} |-> Overwrite(1, 0)],
     [id \in {"r1", "r2"} |-> Overwrite(1, 0)]}

\* The old channel; position is a field the handler does not read
ChannelBefore ==
    [name |-> "n1", topic |-> "t1", rateLimitPerUser |-> 0,
     overwrites |-> OverwritesBefore, position |-> 1]

ChannelsAfter ==
    [name : {"n1", "n2"}, topic : {"t1", Null}, rateLimitPerUser : {0, 5},
     overwrites : OverwritesAfter, position : {1, 2}]

\* newPerms.filter(...): the overwrites that are new or differ in a bitfield
ChangedPerms(oldPerms, newPerms) ==
    {id \in DOMAIN newPerms :
        \/ ~Has(oldPerms, id)
        \/ oldPerms[id].allow # newPerms[id].allow
        \/ oldPerms[id].deny # newPerms[id].deny}

\* The if/else on the permission overwrites
OverwritesDiffer(oldPerms, newPerms) ==
    IF Cardinality(DOMAIN oldPerms) # Cardinality(DOMAIN newPerms) THEN TRUE
    ELSE Cardinality(ChangedPerms(oldPerms, newPerms)) > 0

ChannelChanges(old, new) ==
    ChangeNames(<< <<"name", old.name # new.name>>,
                   <<"topic", old.topic # new.topic>>,
                   <<"rateLimitPerUser",
                     old.rateLimitPerUser # new.rateLimitPerUser>>,
                   <<"overwrites",
                     OverwritesDiffer(old.overwrites, new.overwrites)>> >>)

ChannelUpdatedRecord(r) ==
    Record("Channel Settings Updated", "Yellow",
           IF r.executor # Null THEN r.executor ELSE "Unknown", Null)

\* client.on('channelUpdate')
ChannelUpdate ==
    /\ SlotFree
    /\ \E guild \in {"g1", Null}, channel \in Channels, partial \in BOOLEAN,
          new \in ChannelsAfter :
      \E fetch \in UpdateFetches("ChannelUpdate", Channels) :
        LET changes == ChannelChanges(ChannelBefore, new)
            event == [channel |-> channel, partial |-> partial,
                      old |-> ChannelBefore, new |-> new, changes |-> changes]
        IN  IF guild = Null \/ partial
            THEN /\ fetch = [ok |-> FALSE, entries |-> <<>>]
                 /\ ReturnEarly("channelUpdate", guild,
                                [event EXCEPT !.changes = <<>>])
            ELSE IF Len(changes) = 0
            THEN /\ fetch = [ok |-> FALSE, entries |-> <<>>]
                 /\ ReturnEarly("channelUpdate", guild, event)
            ELSE LookupThenLog(
                  "channelUpdate", guild, event,
                  "ChannelUpdate", channel, fetch,
                  Lookup(fetch, "ChannelUpdate", channel),
                  ChannelUpdatedRecord(Lookup(fetch, "ChannelUpdate", channel)))

\* The old role; hoist is a field the handler does not read
RoleBefore == [name |-> "n1", color |-> 0, permissions |-> 8, hoist |-> FALSE]

RolesAfter ==
    [name : {"n1", "n2"}, color : {0, 255}, permissions : {8, 0},
     hoist : BOOLEAN]

\* oldRole.permissions.equals(newRole.permissions): the same bitfield
PermissionsEquals(a, b) == a = b

RoleChanges(old, new) ==
    ChangeNames(<< <<"name", old.name # new.name>>,
                   <<"color", old.color # new.color>>,
                   <<"permissions",
                     ~PermissionsEquals(old.permissions, new.permissions)>> >>)

RoleUpdatedRecord(r) ==
    Record("Role Settings Updated", "Yellow",
           IF r.executor # Null THEN r.executor ELSE "Unknown", Null)

\* client.on('roleUpdate')
RoleUpdate ==
    /\ SlotFree
    /\ \E guild \in Guilds, role \in Roles, new \in RolesAfter :
      \E fetch \in UpdateFetches("RoleUpdate", Roles) :
        LET changes == RoleChanges(RoleBefore, new)
            event == [role |-> role, old |-> RoleBefore, new |-> new,
                      changes |-> changes]
        IN  IF Len(changes) = 0
            THEN /\ fetch = [ok |-> FALSE, entries |-> <<>>]
                 /\ ReturnEarly("roleUpdate", guild, event)
            ELSE LookupThenLog(
                  "roleUpdate", guild, event,
                  "RoleUpdate", role, fetch,
                  Lookup(fetch, "RoleUpdate", role),
                  RoleUpdatedRecord(Lookup(fetch, "RoleUpdate", role)))

-----------------------------------------------------------------------------
(* guildMemberUpdate: nickname, roles and timeout of one member.           *)

\* The member whose updates are followed, in guild g1
UpdatedMembers == {"u1"}

\* The nicknames the member switches between; 0 stands for no nickname
MemberNicknames == {0, 1, 2}

\* newMember.user.username, recorded when the nickname is removed
Username == 3

\* An old nickname matters only through oldMember.nickname !==
\* newMember.nickname: it is the new one or another one
OldNicknames(new) ==
    {new, CHOOSE n \in MemberNicknames : n # new /\ \A k \in MemberNicknames \ {new} : n <= k}

\* getNicknameHistory(guildId, userId): 'None recorded.' for an empty
\* history, otherwise the history from its second entry on, joined
getNicknameHistory(hist, guildId, userId) ==
    LET history == StoredList(hist, guildId, userId)
    IN  IF Len(history) = 0
        THEN [none |-> TRUE, names |-> <<>>]
        ELSE [none |-> FALSE, names |-> SliceRest(history)]

NicknameRecord(past) ==
    [title |-> "Nickname Changed (History Recorded)", color |-> "Blue",
     mod |-> Null, reason |-> Null, past |-> past]

\* roles.cache of the old member, and of the new one: the same, one role
\* added, or the role removed
RolesBefore == {"r1"}
RolesAfterUpdate == {{"r1"}, {"r1", "r2"}, {}}

RolesRecord(added, removed) ==
    [title |-> "Member Roles Updated", color |-> "LuminousVividPink",
     mod |-> Null, reason |-> Null, added |-> added, removed |-> removed]

\* communicationDisabledUntilTimestamp: none (0 stands for null), an instant
\* that has passed, and two instants to come
TimeoutValues == {0, NowValue - 1000, NowValue + 1000, NowValue + 2000}

\* oldTimeout === newTimeout.  communicationDisabledUntil is null without a
\* timestamp and otherwise a Date object made by the getter at each read, and
\* === on objects is identity: two reads are the same value only when both
\* are null.
SameDate(oldTimeout, newTimeout) == oldTimeout = 0 /\ newTimeout = 0

\* timeout && timeout > new Date()
InFuture(timeout, now) == timeout # 0 /\ timeout > now

TimedOutRecord(r) ==
    Record("Member Timed Out", "DarkOrange",
           IF r.executor # Null THEN r.executor ELSE "Unknown Moderator",
           IF r.reason # Null THEN r.reason ELSE NoReason)

TimeoutEndedRecord(r) ==
    Record("Timeout Ended/Removed", "Green",
           IF r.executor # Null THEN r.executor ELSE "Unknown Moderator",
           "Timeout lifted/expired.")

\* The if / else if after the lookup
TimeoutRecords(oldTimeout, newTimeout, now, r) ==
    IF InFuture(newTimeout, now) THEN <<TimedOutRecord(r)>>
    ELSE IF InFuture(oldTimeout, now) THEN <<TimeoutEndedRecord(r)>>
    ELSE <<>>

\* client.on('guildMemberUpdate').  The nickname and role records are handed
\* to logEvent before the await of the lookup, the timeout record after it.
GuildMemberUpdate ==
    /\ SlotFree
    /\ \E member \in UpdatedMembers, partial \in BOOLEAN,
          newNick \in MemberNicknames, newRoles \in RolesAfterUpdate,
          oldTimeout \in TimeoutValues, newTimeout \in TimeoutValues :
       \E oldNick \in OldNicknames(newNick),
          fetch \in UpdateFetches("MemberUpdate", {member}) :
         LET guild == "g1"
             event == [member |-> member, partial |-> partial,
                       oldNick |-> oldNick, newNick |-> newNick,
                       oldRoles |-> RolesBefore, newRoles |-> newRoles,
                       oldTimeout |-> oldTimeout, newTimeout |-> newTimeout]
             nickChanged == oldNick # newNick
             recorded == IF Falsy(newNick) THEN Username ELSE newNick
             hist == IF nickChanged
                     THEN RecordNicknameResult(nicknameHistory, guild,
                                               member, recorded).hist
                     ELSE nicknameHistory
             nickRecords ==
                 IF nickChanged
                 THEN <<NicknameRecord(getNicknameHistory(hist, guild, member))>>
                 ELSE <<>>
             added == newRoles \ RolesBefore
             removed == RolesBefore \ newRoles
             roleRecords ==
                 IF Cardinality(added) > 0 \/ Cardinality(removed) > 0
                 THEN <<RolesRecord(added, removed)>>
                 ELSE <<>>
             looksUp == ~SameDate(oldTimeout, newTimeout)
             r == IF looksUp THEN Lookup(fetch, "MemberUpdate", member)
                  ELSE NoLookup
             emitted ==
                 nickRecords \o roleRecords \o
                 (IF looksUp /\ r.settled = "fulfilled"
                  THEN TimeoutRecords(oldTimeout, newTimeout, NowValue, r)
                  ELSE <<>>)
         IN  IF partial
             THEN /\ fetch = [ok |-> FALSE, entries |-> <<>>]
                  /\ ReturnEarly("guildMemberUpdate", guild, event)
             ELSE /\ looksUp \/ fetch = [ok |-> FALSE, entries |-> <<>>]
                  /\ IF nickChanged
                     THEN recordNickname(guild, member, recorded)
                     ELSE UNCHANGED <<nicknameHistory, configFile, nicknameFile>>
                  /\ lastAudit' =
                       [handler |-> "guildMemberUpdate", guild |-> guild,
                        event |-> event,
                        types |-> IF looksUp THEN {"MemberUpdate"} ELSE {},
                        targetId |-> IF looksUp THEN member ELSE Null,
                        fetch |-> IF looksUp THEN fetch
                                  ELSE [ok |-> TRUE, entries |-> <<>>],
                        now |-> NowValue, result |-> r,
                        outcome |-> IF r.settled = "rejected" THEN "rejected"
                                    ELSE "fulfilled",
                        emitted |-> emitted]
                  /\ LogEventCalls(guild, Len(emitted))
                  /\ UNCHANGED <<guildConfig, lastNick, lastLoad, lastCmd, platform, lastLog, inviteVars>>

-----------------------------------------------------------------------------
(* The invite snapshot: cacheInvites and the guildMemberAdd handler.       *)
(* client.invites maps a guild to a Collection object; the handler keeps a *)
(* reference to that object across its await, writes into it and then      *)
(* stores a new object, so objects have identity: `heap` holds them.       *)

Codes == {"A", "B"}
UseCounts == {0, 1, 2}

\* What guild.invites.fetch() resolves to: invites with distinct codes, in
\* the order the Collection iterates them
LiveLists ==
    {l \in UNION {[1..k -> [code : Codes, uses : UseCounts]] :
                    k \in 0..Cardinality(Codes)} :
        \A i, j \in 1..Len(l) : i # j => l[i].code # l[j].code}

InviteFetches ==
    {[ok |-> FALSE, live |-> <<>>]} \cup {[ok |-> TRUE, live |-> l] : l \in LiveLists}

\* A Collection of the invites that were used at least once only
SnapshotOfUsed(live) ==
    [c \in {live[i].code : i \in {k \in 1..Len(live) : live[k].uses > 0}} |->
        (CHOOSE inv \in Range(live) : inv.code = c).uses]

\* new Collection(invites.map(invite => [invite.code, invite.uses]))
SnapshotOf(live) ==
    [c \in {live[i].code : i \in 1..Len(live)} |->
        (CHOOSE inv \in Range(live) : inv.code = c).uses]

\* cachedInvites.get(code) without `|| 0`: nothing is greater than undefined,
\* which is the same as a cached count no use-count exceeds
OldUsesUndefined(cached, code) ==
    IF Has(cached, code) THEN cached[code] ELSE Cardinality(UseCounts)

\* Every invite compared as if its cached use-count were 0
OldUsesZero(cached, code) == 0

\* cachedInvites.get(code) || 0
OldUses(cached, code) == IF Has(cached, code) THEN cached[code] ELSE 0

\* The comparison of the loop, with >= for >
UsedAtLeast(inviteUses, oldUses) == inviteUses >= oldUses

\* invite.uses > oldUses
UsedMore(inviteUses, oldUses) == inviteUses > oldUses

\* for (const [code, invite] of newInvites) { ... break; }: the index of the
\* invite the loop stops at, 0 when it runs to the end
RECURSIVE UsedInviteFrom(_, _, _)
UsedInviteFrom(live, cached, i) ==
    IF i > Len(live) THEN 0
    ELSE IF UsedMore(live[i].uses, OldUses(cached, live[i].code)) THEN i
    ELSE UsedInviteFrom(live, cached, i + 1)

UsedInvite(live, cached) == UsedInviteFrom(live, cached, 1)

\* The guilds in which the bot has the Manage Server permission
GuildsManaged == {"g1"}

\* The permission test of cacheInvites left out
CanManageAnyGuild(guild) == TRUE

\* guild.members.me.permissions.has(PermissionsBitField.Flags.ManageGuild)
CanManageGuild(guild) == guild \in GuildsManaged

\* How many guildMemberAdd handlers may be awaiting their fetch
MaxJoins == 2

\* Objects are named by numbers; one more object than there are references
ObjectNames == 1..(Cardinality(Guilds) + MaxJoins + 1)

\* The objects still referenced by client.invites or by a waiting handler
Referenced(inv, js) == {inv[g] : g \in DOMAIN inv} \cup {j.ref : j \in js}

NewObject(inv, js) ==
    CHOOSE o \in ObjectNames \ Referenced(inv, js) :
        \A x \in ObjectNames \ Referenced(inv, js) : o <= x

\* Objects nothing refers to are dropped
Collect(h, inv, js) == [o \in (DOMAIN h) \cap Referenced(inv, js) |-> h[o]]

NoJoinRun ==
    [guild |-> Null, member |-> Null, outcome |-> "none", emitted |-> <<>>,
     fetch |-> [ok |-> TRUE, live |-> <<>>], tracked |-> FALSE,
     cached |-> EmptyMap, undisturbed |-> TRUE, ref |-> 0]

\* The latest run has been looked at; the next handler may run
JoinSlotFree == lastJoin.outcome = "none"

ClearJoin ==
    /\ ~JoinSlotFree
    /\ lastJoin' = NoJoinRun
    /\ UNCHANGED <<storeVars, inflight, invites, heap, primed, joins,
                   lastLog, lastNick, lastLoad, lastCmd, platform, lastAudit>>

JoinRecord(invite, uses) ==
    [title |-> "Member Joined", color |-> "Green", invite |-> invite, uses |-> uses]

\* A handler of the same guild that is still waiting has been overtaken
Disturb(js, guild) ==
    {IF j.guild = guild THEN [j EXCEPT !.undisturbed = FALSE] ELSE j : j \in js}

\* cacheInvites(guild), called for every guild when the client is ready; the
\* step is the one in which its fetch settles.
CacheInvitesWith(guild, fetch) ==
    /\ primed' = primed \cup {guild}
    /\ IF ~CanManageGuild(guild)
       THEN /\ fetch = [ok |-> FALSE, live |-> <<>>]
            /\ UNCHANGED <<invites, heap, joins>>
       ELSE IF ~fetch.ok
       THEN UNCHANGED <<invites, heap, joins>>
       ELSE LET o == NewObject(Delete(invites, guild), joins)
                inv == Put(invites, guild, o)
            IN  /\ invites' = inv
                /\ joins' = Disturb(joins, guild)
                /\ heap' = Collect(Put(heap, o, SnapshotOf(fetch.live)), inv, joins)
    /\ UNCHANGED <<storeVars, inflight, lastJoin, lastLog, lastNick, lastLoad,
                   lastCmd, lastAudit>>

CacheInvites ==
    /\ JoinSlotFree
    /\ \E guild \in Guilds \ primed, fetch \in InviteFetches :
         CacheInvitesWith(guild, fetch)
    /\ UNCHANGED platform

\* client.on('guildMemberAdd') up to its await: with no Collection cached for
\* the guild the record says tracking is disabled and the handler is done;
\* otherwise it keeps the Collection and awaits guild.invites.fetch().
GuildMemberAddStartsFor(guild, member) ==
    /\ \A j \in joins : ~(j.guild = guild /\ j.member = member)
    /\ IF Has(invites, guild)
       THEN /\ Cardinality(joins) < MaxJoins
            /\ joins' = joins \cup {[guild |-> guild, member |-> member,
                                     ref |-> invites[guild],
                                     undisturbed |-> TRUE]}
            /\ UNCHANGED <<lastJoin, inflight>>
       ELSE /\ lastJoin' = [guild |-> guild, member |-> member,
                            outcome |-> "fulfilled",
                            emitted |-> <<JoinRecord("disabled", 0)>>,
                            fetch |-> [ok |-> TRUE, live |-> <<>>],
                            tracked |-> FALSE, cached |-> EmptyMap,
                            undisturbed |-> TRUE, ref |-> 0]
            /\ LogEventCalls(guild, 1)
            /\ UNCHANGED joins
    /\ UNCHANGED <<storeVars, invites, heap, primed, lastLog, lastNick,
                   lastLoad, lastCmd, lastAudit>>

GuildMemberAddStart ==
    /\ JoinSlotFree
    /\ \E guild \in Guilds, member \in Users :
         GuildMemberAddStartsFor(guild, member)
    /\ UNCHANGED platform

\* The rest of the handler, when guild.invites.fetch() settles.  A rejected
\* fetch is thrown at the await, which nothing catches: the handler's
\* promise rejects before logEvent is reached.
GuildMemberAddSettlesWith(j, fetch) ==
        LET rest == joins \ {j}
            cached == heap[j.ref]
            i == UsedInvite(fetch.live, cached)
            written == IF i = 0 THEN heap
                       ELSE [heap EXCEPT ![j.ref] =
                               Put(cached, fetch.live[i].code, fetch.live[i].uses)]
            o == NewObject(Delete(invites, j.guild), rest)
            inv == Put(invites, j.guild, o)
            run == [guild |-> j.guild, member |-> j.member,
                    outcome |-> "pending", emitted |-> <<>>,
                    fetch |-> fetch, tracked |-> TRUE,
                    cached |-> heap[invites[j.guild]],
                    undisturbed |-> j.undisturbed, ref |-> j.ref]
        IN  /\ IF ~fetch.ok
               THEN /\ joins' = rest
                    /\ heap' = Collect(heap, invites, rest)
                    /\ lastJoin' = [run EXCEPT !.outcome = "rejected",
                                               !.emitted = <<>>]
                    /\ UNCHANGED <<invites, inflight>>
               ELSE /\ joins' = Disturb(rest, j.guild)
                    /\ invites' = inv
                    /\ heap' = Collect(Put(written, o, SnapshotOf(fetch.live)),
                                       inv, rest)
                    /\ lastJoin' =
                         [run EXCEPT
                            !.outcome = "fulfilled",
                            !.emitted =
                               IF i = 0 THEN <<JoinRecord("indeterminate", 0)>>
                               ELSE <<JoinRecord(fetch.live[i].code,
                                                 fetch.live[i].uses)>>]
                    /\ LogEventCalls(j.guild, 1)
            /\ UNCHANGED <<storeVars, primed, lastLog, lastNick, lastLoad,
                           lastCmd, lastAudit>>

GuildMemberAddSettle ==
    /\ JoinSlotFree
    /\ \E j \in joins, fetch \in InviteFetches :
         GuildMemberAddSettlesWith(j, fetch)
    /\ UNCHANGED platform

\* Joins against the platform's own invite counts

\* How many times one invite may be used
MaxUses == 2

RaceGuild == "g1"

\* Nobody has joined yet: every invite of the guild has 0 uses
NoJoins == [uses |-> [c \in Codes |-> 0], usedBy |-> EmptyMap]

\* The orders in which a fetched Collection may iterate the guild's invites
Orders ==
    {o \in [1..Cardinality(Codes) -> Codes] :
        \A i, k \in 1..Cardinality(Codes) : i # k => o[i] # o[k]}

\* guild.invites.fetch() resolving to the invites as they are now
LiveListOf(uses, order) ==
    [i \in 1..Len(order) |-> [code |-> order[i], uses |-> uses[order[i]]]]

\* cacheInvites(guild) at 'ready', its fetch resolving to the invites as
\* they are
CacheInvitesLive ==
    /\ JoinSlotFree
    /\ RaceGuild \notin primed
    /\ \E order \in Orders :
         CacheInvitesWith(RaceGuild,
             [ok |-> TRUE, live |-> LiveListOf(platform.uses, order)])
    /\ UNCHANGED platform

\* A member joins through one invite: the platform counts the use and
\* delivers guildMemberAdd, whose handler runs up to its await.
MemberJoins ==
    /\ JoinSlotFree
    /\ RaceGuild \in primed
    /\ \E member \in Users, code \in Codes :
         /\ platform.uses[code] < MaxUses
         /\ platform' = [uses |-> [platform.uses EXCEPT ![code] = @ + 1],
                         usedBy |-> Put(platform.usedBy, member, code)]
         /\ GuildMemberAddStartsFor(RaceGuild, member)

\* The rest of a handler, its fetch resolving to the invites as they are
GuildMemberAddSettleLive ==
    /\ JoinSlotFree
    /\ \E j \in joins, order \in Orders :
         GuildMemberAddSettlesWith(j,
             [ok |-> TRUE, live |-> LiveListOf(platform.uses, order)])
    /\ UNCHANGED platform

-----------------------------------------------------------------------------
(* Delivery of log records: the !setlog command, a handler that logs, and  *)
(* the two awaits of logEvent.                                             *)

\* Channel types as the code tests them: 0 is a text channel
GuildText == 0
GuildVoice == 2

\* The channels of the guilds: c1, c3 and v1 are in g1, c2 is in g2
AllChannels == {"c1", "c2", "c3", "v1"}

ChannelGuild(c) == IF c = "c2" THEN "g2" ELSE "g1"

ChannelType(c) == IF c = "v1" THEN GuildVoice ELSE GuildText

GuildChannels(guild) == {c \in AllChannels : ChannelGuild(c) = guild}

\* e.code values of Discord API errors the catch of logEvent tells apart
UnknownChannel == 10003
MissingAccess == 50001

\* The codes a rejected fetch or send may carry: the two above, Missing
\* Permissions, and 0 for an error without a numeric code
ErrorCodes == {UnknownChannel, MissingAccess, 50013, 0}

\* Every error taken as a sign that the channel is gone
UnreachableAnyError(code) == TRUE

\* e.code === 10003 only
UnreachableUnknownOnly(code) == code = UnknownChannel

\* e.code === 10003 || e.code === 50001
Unreachable(code) == code = UnknownChannel \/ code = MissingAccess

NoCommand ==
    [name |-> "none", guild |-> Null, permitted |-> FALSE, replied |-> FALSE,
     kicked |-> Null, banned |-> Null, changed |-> FALSE, logged |-> 0,
     input |-> [current |-> Null, mention |-> Null, arg |-> "none"]]

\* The latest command has been looked at; the next message may arrive
CommandSlotFree == lastCmd.name = "none"

NoLogRun ==
    [guild |-> Null, channelId |-> Null, phase |-> "none", outcome |-> "none",
     code |-> 0]

\* The latest call has been looked at; the next step may run
LogSlotFree == lastLog.outcome = "none"

ClearLog ==
    /\ ~LogSlotFree
    /\ lastLog' = NoLogRun
    /\ UNCHANGED <<storeVars, inflight, inviteVars, lastNick, lastLoad, lastCmd, platform, lastAudit>>

\* What !setlog stores: the id of the target channel, or Null when the
\* command replies and returns.  `mention` is the first mentioned channel
\* or Null; `arg` is "none" without args[0], "nomatch" when args[0] names no
\* channel of the guild, otherwise the channel it resolves to.
SetlogTarget(admin, current, mention, arg) ==
    IF ~admin THEN Null
    ELSE IF mention # Null
    THEN IF ChannelType(mention) = GuildText THEN mention ELSE Null
    ELSE IF arg = "none" THEN current
    ELSE IF arg = "nomatch" THEN Null
    ELSE IF ChannelType(arg) = GuildText THEN arg ELSE Null

\* messageCreate with the !setlog command in a guild, by a user
Setlog ==
    /\ LogSlotFree
    /\ \E guild \in Guilds, admin \in BOOLEAN :
       \E current \in GuildChannels(guild),
          mention \in AllChannels \cup {Null},
          arg \in GuildChannels(guild) \cup {"none", "nomatch"} :
         LET target == SetlogTarget(admin, current, mention, arg)
         IN  /\ IF target = Null
                THEN UNCHANGED <<guildConfig, configFile, nicknameFile>>
                ELSE /\ guildConfig' = Put(guildConfig, guild, target)
                     /\ saveConfig(Put(guildConfig, guild, target), nicknameHistory)
             /\ UNCHANGED <<nicknameHistory, inflight, inviteVars, lastLog,
                            lastNick, lastLoad, lastCmd, platform, lastAudit>>

\* client.on('channelCreate'): one record, handed to logEvent without await
ChannelCreate ==
    /\ LogSlotFree /\ CommandSlotFree
    /\ \E guild \in Guilds \cup {Null} :
         /\ IF guild = Null THEN UNCHANGED inflight ELSE LogEventCalls(guild, 1)
         /\ UNCHANGED <<storeVars, inviteVars, lastLog, lastNick, lastLoad, lastCmd, platform, lastAudit>>

\* A catch clause that lets an error without a numeric code pass
CatchesCodedOnly(code) == code # 0

\* try { ... } catch (e): both awaits are inside the try and the clause has
\* no filter, so every rejection reaches the catch block.
Catches(code) == TRUE

\* The catch block of logEvent.  It logs, evicts on the two codes, and
\* returns; saveConfig() has a try of its own.  An error that the clause
\* did not catch would reject the promise logEvent returned.
LogEventCatch(e, code) ==
    IF Catches(code)
    THEN /\ lastLog' = [guild |-> e.guild, channelId |-> e.channelId,
                        phase |-> e.phase, outcome |-> "failed",
                        code |-> code]
         /\ IF Unreachable(code)
            THEN /\ guildConfig' = Delete(guildConfig, e.guild)
                 /\ saveConfig(Delete(guildConfig, e.guild), nicknameHistory)
            ELSE UNCHANGED <<guildConfig, configFile, nicknameFile>>
    ELSE /\ lastLog' = [guild |-> e.guild, channelId |-> e.channelId,
                        phase |-> e.phase, outcome |-> "rejected",
                        code |-> code]
         /\ UNCHANGED <<guildConfig, configFile, nicknameFile>>

\* What guild.channels.fetch(channelId) settles to
ChannelFetches ==
    [kind : {"rejected"}, code : ErrorCodes, type : {GuildText}]
    \cup [kind : {"null"}, code : {0}, type : {GuildText}]
    \cup [kind : {"channel"}, code : {0}, type : {GuildText, GuildVoice}]

\* logEvent from its first await to its second
ChannelFetched ==
    /\ LogSlotFree /\ CommandSlotFree
    /\ \E e \in BagToSet(inflight), fetch \in ChannelFetches :
         /\ e.phase = "fetch"
         /\ IF fetch.kind = "rejected"
            THEN /\ inflight' = inflight (-) SetToBag({e})
                 /\ LogEventCatch(e, fetch.code)
            ELSE IF fetch.kind = "null" \/ fetch.type # GuildText
            THEN /\ inflight' = inflight (-) SetToBag({e})
                 /\ lastLog' = [guild |-> e.guild, channelId |-> e.channelId,
                                phase |-> e.phase, outcome |-> "skipped",
                                code |-> 0]
                 /\ UNCHANGED <<guildConfig, configFile, nicknameFile>>
            ELSE /\ inflight' = (inflight (-) SetToBag({e}))
                                  (+) SetToBag({[e EXCEPT !.phase = "send"]})
                 /\ UNCHANGED <<guildConfig, configFile, nicknameFile, lastLog>>
         /\ UNCHANGED <<nicknameHistory, inviteVars, lastNick, lastLoad, lastCmd, platform, lastAudit>>

\* What channel.send(...) settles to
Sends ==
    [kind : {"rejected"}, code : ErrorCodes] \cup [kind : {"sent"}, code : {0}]

\* logEvent from its second await to its end
MessageSent ==
    /\ LogSlotFree /\ CommandSlotFree
    /\ \E e \in BagToSet(inflight), send \in Sends :
         /\ e.phase = "send"
         /\ inflight' = inflight (-) SetToBag({e})
         /\ IF send.kind = "rejected"
            THEN LogEventCatch(e, send.code)
            ELSE /\ lastLog' = [guild |-> e.guild, channelId |-> e.channelId,
                                phase |-> e.phase, outcome |-> "sent",
                                code |-> 0]
                 /\ UNCHANGED <<guildConfig, configFile, nicknameFile>>
         /\ UNCHANGED <<nicknameHistory, inviteVars, lastNick, lastLoad, lastCmd, platform, lastAudit>>

\* The process ends and starts again: the stores start empty, the calls in
\* flight are gone, and client.on('ready') runs loadConfig().
Restart ==
    /\ LogSlotFree /\ CommandSlotFree
    /\ LET loaded == LoadConfigResult(configFile, nicknameFile, EmptyMap, EmptyMap)
       IN  /\ guildConfig' = loaded.guildConfig
           /\ nicknameHistory' = loaded.nicknameHistory
    /\ inflight' = EmptyBag
    /\ invites' = EmptyMap
    /\ heap' = EmptyMap
    /\ primed' = {}
    /\ joins' = {}
    /\ UNCHANGED <<configFile, nicknameFile, lastJoin, lastLog, lastNick, lastLoad, lastCmd, platform, lastAudit>>

-----------------------------------------------------------------------------
(* Loading at startup and saving again *)

\* The files a start may find: none, an unreadable one, or a JSON text.  A
\* config text may name a guild twice.
ConfigTexts == SUBSET (Guilds \X AllChannels)

ConfigFilesOnDisk ==
    {NoFile, [exists |-> TRUE, valid |-> FALSE, text |-> {}]}
    \cup {[exists |-> TRUE, valid |-> TRUE, text |-> t] : t \in ConfigTexts}

NicknameTexts ==
    SUBSET {<<"g1", {<<"u1", <<1>> >>}>>,
            <<"g1", {}>>,
            <<"g2", {<<"u1", <<2, 1>> >>, <<"u2", <<>> >>}>>}

NicknameFilesOnDisk ==
    {NoFile, [exists |-> TRUE, valid |-> FALSE, text |-> {}]}
    \cup {[exists |-> TRUE, valid |-> TRUE, text |-> t] : t \in NicknameTexts}

NoLoad ==
    [loaded |-> FALSE, saved |-> FALSE, configFile |-> NoFile,
     nicknameFile |-> NoFile, guildConfig |-> EmptyMap,
     nicknameHistory |-> EmptyMap]

\* client.on('ready'): loadConfig() fills the stores from the files
Ready ==
    /\ ~lastLoad.loaded
    /\ LET loaded == LoadConfigResult(configFile, nicknameFile,
                                      guildConfig, nicknameHistory)
       IN  /\ guildConfig' = loaded.guildConfig
           /\ nicknameHistory' = loaded.nicknameHistory
           /\ lastLoad' = [loaded |-> TRUE, saved |-> FALSE,
                           configFile |-> configFile,
                           nicknameFile |-> nicknameFile,
                           guildConfig |-> loaded.guildConfig,
                           nicknameHistory |-> loaded.nicknameHistory]
    /\ UNCHANGED <<configFile, nicknameFile, inflight, inviteVars, lastLog,
                   lastNick, lastAudit, lastCmd, platform>>

\* saveConfig() called with the stores as loadConfig() left them
SaveAsLoaded ==
    /\ lastLoad.loaded /\ ~lastLoad.saved
    /\ saveConfig(guildConfig, nicknameHistory)
    /\ lastLoad' = [lastLoad EXCEPT !.saved = TRUE]
    /\ UNCHANGED <<guildConfig, nicknameHistory, inflight, inviteVars,
                   lastLog, lastNick, lastAudit, lastCmd, platform>>

-----------------------------------------------------------------------------
(* voiceStateUpdate *)

VoiceChannels == {"v1", "v2"}

\* The fields of a voice state the handler reads.  serverMute and
\* serverDeaf only choose the colour and the wording of the record.
VoiceStates ==
    [channelId : VoiceChannels \cup {Null}, mute : BOOLEAN, deaf : BOOLEAN,
     streaming : BOOLEAN, selfVideo : BOOLEAN, serverMute : BOOLEAN,
     serverDeaf : BOOLEAN]

\* The old state: the server flags of the old state are never read
OldVoiceStates ==
    {s \in VoiceStates : ~s.serverMute /\ ~s.serverDeaf}

\* A channel test that never sees a move
MovedNever(oldState, newState) == FALSE

\* oldState.channelId !== newState.channelId
Moved(oldState, newState) == oldState.channelId # newState.channelId

\* 1. Join/Leave/Switch
VoiceChannelRecords(oldState, newState) ==
    IF oldState.channelId = Null /\ newState.channelId # Null
    THEN <<Record("Voice Joined", "Green", Null, Null)>>
    ELSE IF oldState.channelId # Null /\ newState.channelId = Null
    THEN <<Record("Voice Left", "Red", Null, Null)>>
    ELSE IF /\ oldState.channelId # Null /\ newState.channelId # Null
            /\ oldState.channelId # newState.channelId
    THEN <<Record("Voice Switched", "Blue", Null, Null)>>
    ELSE <<>>

\* 2. Mute/Deafen/Stream/Video changes: the first branch of the else-if
\* chain that applies, after the return on a changed channel
VoiceFlagRecords(oldState, newState) ==
    IF Moved(oldState, newState) THEN <<>>
    ELSE IF oldState.mute # newState.mute
    THEN <<Record(IF newState.mute THEN "User Muted" ELSE "User Unmuted",
                  IF newState.serverMute THEN "Orange" ELSE "LightGrey",
                  Null, Null)>>
    ELSE IF oldState.deaf # newState.deaf
    THEN <<Record(IF newState.deaf THEN "User Deafened" ELSE "User Undeafened",
                  IF newState.serverDeaf THEN "Orange" ELSE "LightGrey",
                  Null, Null)>>
    ELSE IF oldState.streaming # newState.streaming
    THEN <<Record(IF newState.streaming THEN "Stream Started"
                  ELSE "Stream Stopped", "LightGrey", Null, Null)>>
    ELSE IF oldState.selfVideo # newState.selfVideo
    THEN <<Record(IF newState.selfVideo THEN "Video Started"
                  ELSE "Video Stopped", "LightGrey", Null, Null)>>
    ELSE <<>>

\* client.on('voiceStateUpdate')
VoiceStateUpdate ==
    /\ SlotFree
    /\ \E guild \in {"g1", Null}, member \in {"u1", Null},
          oldState \in OldVoiceStates, newState \in VoiceStates :
         LET event == [member |-> member, old |-> oldState, new |-> newState]
         IN  IF member = Null \/ guild = Null
             THEN ReturnEarly("voiceStateUpdate", guild, event)
             ELSE AuditRun("voiceStateUpdate", guild, event, {}, Null,
                           [ok |-> TRUE, entries |-> <<>>], NoLookup,
                           "fulfilled",
                           VoiceChannelRecords(oldState, newState)
                               \o VoiceFlagRecords(oldState, newState))

-----------------------------------------------------------------------------
(* The commands: !setlog, !kick, !ban, !help and their dispatcher *)

Capabilities == {"Administrator", "KickMembers", "BanMembers"}

\* member.permissions.has(flag): an administrator has every permission
PermissionsHas(perms, flag) == flag \in perms \/ "Administrator" \in perms

\* The `permissions` field of each command; !help has none
Required(name) ==
    CASE name = "setlog" -> "Administrator"
      [] name = "kick" -> "KickMembers"
      [] name = "ban" -> "BanMembers"
      [] OTHER -> Null

Permitted(perms, name) ==
    Required(name) = Null \/ PermissionsHas(perms, Required(name))

\* Whom the command names: nobody the bot can resolve, or a user who may be
\* a cached member of the guild and whom the bot may be able to kick or ban
NoTarget == [id |-> Null, member |-> FALSE, manageable |-> FALSE]

CommandTargets ==
    {NoTarget} \cup [id : {"u1"}, member : BOOLEAN, manageable : BOOLEAN]

\* What one execute() did: how its promise settled, whether message.reply
\* delivered a reply, whom it kicked or banned, the channel id it stored,
\* and how many records it handed to logEvent itself
Outcome(settled, replied, kicked, banned, stored, logged) ==
    [settled |-> settled, replied |-> replied, kicked |-> kicked,
     banned |-> banned, stored |-> stored, logged |-> logged]

Settled(ok) == IF ok THEN "fulfilled" ELSE "rejected"

\* return message.reply(...): the command ends with the reply's promise
Reply(replyOk) == Outcome(Settled(replyOk), replyOk, Null, Null, Null, 0)

\* execute of !setlog
SetlogExecute(perms, current, mention, arg, sendOk, replyOk) ==
    LET target == SetlogTarget(PermissionsHas(perms, "Administrator"),
                               current, mention, arg)
    IN  IF target = Null
        THEN Reply(replyOk)
        ELSE Outcome(Settled(sendOk), FALSE, Null, Null, target, 0)

\* execute of !kick; `api` is how targetMember.kick(reason) settles
KickExecute(perms, target, api, sendOk, replyOk) ==
    IF ~PermissionsHas(perms, "KickMembers") THEN Reply(replyOk)
    ELSE IF target.id = Null \/ ~target.member THEN Reply(replyOk)
    ELSE IF ~target.manageable THEN Reply(replyOk)
    ELSE IF api = "rejected"
    THEN Outcome("fulfilled", FALSE, Null, Null, Null, 0)
    ELSE Outcome("fulfilled", FALSE, target.id, Null, Null,
                 IF sendOk THEN 1 ELSE 0)

\* execute of !ban; `api` is how guild.members.ban(id) settles
BanExecute(perms, target, api, sendOk, replyOk) ==
    IF ~PermissionsHas(perms, "BanMembers") THEN Reply(replyOk)
    ELSE IF target.id = Null THEN Reply(replyOk)
    ELSE IF target.member /\ ~target.manageable THEN Reply(replyOk)
    ELSE IF api = "rejected"
    THEN Outcome("fulfilled", FALSE, Null, Null, Null, 0)
    ELSE Outcome("fulfilled", FALSE, Null, target.id, Null,
                 IF sendOk THEN 1 ELSE 0)

\* execute of !help
HelpExecute(sendOk) == Outcome(Settled(sendOk), FALSE, Null, Null, Null, 0)

\* The dispatcher after execute(): it logs 'Command Used' for every command
\* but setlog whose execute() returned, and replies when execute() threw.
Dispatched(name, x, replyOk) ==
    IF x.settled = "fulfilled"
    THEN [x EXCEPT !.logged = IF name # "setlog" THEN @ + 1 ELSE @]
    ELSE [x EXCEPT !.replied = replyOk]

ClearCommand ==
    /\ ~CommandSlotFree
    /\ lastCmd' = NoCommand
    /\ UNCHANGED <<storeVars, inflight, inviteVars, lastLog, lastNick,
                   lastLoad, lastAudit, platform>>

\* What is remembered of the words of a command other than !setlog
NoInput == [current |-> Null, mention |-> Null, arg |-> "none"]

\* The effects of one dispatched command on the stores, the files and the
\* log, and what is remembered of it
CommandRun(guild, name, perms, input, x) ==
    LET config == IF x.stored = Null THEN guildConfig
                  ELSE Put(guildConfig, guild, x.stored)
    IN  /\ guildConfig' = config
        /\ IF x.stored = Null
           THEN UNCHANGED <<configFile, nicknameFile>>
           ELSE saveConfig(config, nicknameHistory)
        /\ LogEventCalls(guild, x.logged)
        /\ lastCmd' = [name |-> name, guild |-> guild,
                       permitted |-> Permitted(perms, name),
                       replied |-> x.replied, kicked |-> x.kicked,
                       banned |-> x.banned,
                       changed |-> config # guildConfig,
                       logged |-> IF Has(guildConfig, guild)
                                  THEN x.logged ELSE 0,
                       input |-> input]

\* The guilds commands are sent in
CommandGuilds == {"g1"}

\* client.on('messageCreate'): the command handler
MessageCreate ==
    /\ CommandSlotFree /\ LogSlotFree
    /\ \/ \E guild \in CommandGuilds \cup {Null}, prefixed \in BOOLEAN,
             bot \in BOOLEAN, known \in BOOLEAN :
            /\ guild = Null \/ ~prefixed \/ bot \/ ~known
            /\ lastCmd' = [NoCommand EXCEPT !.name = "ignored"]
            /\ UNCHANGED <<guildConfig, configFile, nicknameFile, inflight>>
       \/ \E guild \in CommandGuilds, perms \in SUBSET Capabilities,
             sendOk \in BOOLEAN, replyOk \in BOOLEAN :
            \/ \E current \in GuildChannels(guild),
                  mention \in AllChannels \cup {Null},
                  arg \in GuildChannels(guild) \cup {"none", "nomatch"} :
                 CommandRun(guild, "setlog", perms,
                     [current |-> current, mention |-> mention, arg |-> arg],
                     Dispatched("setlog",
                         SetlogExecute(perms, current, mention, arg,
                                       sendOk, replyOk), replyOk))
            \/ \E target \in CommandTargets, api \in {"ok", "rejected"} :
                 \/ CommandRun(guild, "kick", perms, NoInput,
                        Dispatched("kick",
                            KickExecute(perms, target, api, sendOk, replyOk),
                            replyOk))
                 \/ CommandRun(guild, "ban", perms, NoInput,
                        Dispatched("ban",
                            BanExecute(perms, target, api, sendOk, replyOk),
                            replyOk))
            \/ CommandRun(guild, "help", perms, NoInput,
                   Dispatched("help", HelpExecute(sendOk), replyOk))
    /\ UNCHANGED <<nicknameHistory, inviteVars, lastLog, lastNick, lastLoad,
                   lastAudit, platform>>

-----------------------------------------------------------------------------
(* The program *)

NoAuditRun ==
    [handler |-> "none", guild |-> Null, event |-> EmptyMap,
     types |-> {}, targetId |-> Null,
     fetch |-> [ok |-> TRUE, entries |-> <<>>],
     now |-> NowValue, result |-> NoLookup,
     outcome |-> "fulfilled", emitted |-> <<>>]

\* lastAudit holds one run at a time: the run is read and the slot cleared
\* before the next handler run is recorded.
ClearAudit ==
    /\ lastAudit.handler # "none"
    /\ lastAudit' = NoAuditRun
    /\ UNCHANGED <<storeVars, inflight, lastNick, lastLoad, lastCmd, platform, lastLog, inviteVars>>

\* The memory of a process that has just been constructed
InitMemory ==
    /\ guildConfig = EmptyMap
    /\ nicknameHistory = EmptyMap
    /\ inflight = EmptyBag
    /\ lastLoad = NoLoad
    /\ lastCmd = NoCommand
    /\ platform = NoJoins
    /\ lastNick = [guild |-> Null, member |-> Null, nickname |-> 0]
    /\ lastAudit = NoAuditRun
    /\ invites = EmptyMap
    /\ heap = EmptyMap
    /\ primed = {}
    /\ joins = {}
    /\ lastJoin = NoJoinRun
    /\ lastLog = NoLogRun

\* A first start: neither file exists yet
Init ==
    /\ InitMemory
    /\ configFile = NoFile
    /\ nicknameFile = NoFile

\* A start with the files an earlier run, or somebody else, left on disk
InitFiles ==
    /\ InitMemory
    /\ configFile \in ConfigFilesOnDisk
    /\ nicknameFile \in NicknameFilesOnDisk

NextAudit ==
    \/ GuildMemberRemove
    \/ GuildBanAdd
    \/ GuildBanRemove
    \/ ChannelDelete
    \/ RoleDelete
    \/ MessageDelete
    \/ GuildUpdate
    \/ ClearAudit

SpecAudit == Init /\ [][NextAudit]_vars

NextUpdate ==
    \/ ChannelUpdate
    \/ RoleUpdate
    \/ GuildUpdate
    \/ ClearAudit

SpecUpdate == Init /\ [][NextUpdate]_vars

NextMember ==
    \/ GuildMemberUpdate
    \/ ClearAudit

SpecMember == Init /\ [][NextMember]_vars

NextVoice ==
    \/ VoiceStateUpdate
    \/ ClearAudit

SpecVoice == Init /\ [][NextVoice]_vars

NextRace ==
    \/ CacheInvitesLive
    \/ MemberJoins
    \/ GuildMemberAddSettleLive
    \/ ClearJoin

SpecRace == Init /\ [][NextRace]_vars

NextCommand ==
    \/ MessageCreate
    \/ ChannelCreate
    \/ Restart
    \/ ChannelFetched
    \/ MessageSent
    \/ ClearLog
    \/ ClearCommand

SpecCommand == Init /\ [][NextCommand]_vars

NextReload ==
    \/ Ready
    \/ SaveAsLoaded

SpecReload == InitFiles /\ [][NextReload]_vars

NextJoin ==
    \/ CacheInvites
    \/ GuildMemberAddStart
    \/ GuildMemberAddSettle
    \/ ClearJoin

SpecJoin == Init /\ [][NextJoin]_vars

NextLog ==
    \/ Setlog
    \/ ChannelCreate
    \/ ChannelFetched
    \/ MessageSent
    \/ Restart
    \/ ClearLog

SpecLog == Init /\ [][NextLog]_vars

NextNick == RecordNicknameCall

SpecNick == Init /\ [][NextNick]_vars

-----------------------------------------------------------------------------
(* Nickname history: claims *)

AllLists ==
    {nicknameHistory[g][u] : <<g, u>> \in
        {p \in Guilds \X Users : Has(nicknameHistory, p[1])
                                 /\ Has(nicknameHistory[p[1]], p[2])}}

NoDuplicates(list) ==
    \A i, j \in 1..Len(list) : i # j => list[i] # list[j]

\* C1: after any sequence of recordNickname calls from an empty history,
\* every stored list has at most 20 entries, no duplicate and no empty
\* (falsy) nickname.
C1_HistoryBounded ==
    \A list \in AllLists :
        /\ Len(list) <= 20
        /\ NoDuplicates(list)
        /\ \A i \in 1..Len(list) : ~Falsy(list[i])

\* C1 witness: a list is full and no longer holds the first nickname it was
\* given, so an insert into a full list has dropped the oldest entry.
C1_Witness ==
    \E list \in AllLists : Len(list) = 20 /\ ~Includes(list, 1)

\* The list the latest call was about
LastList == StoredList(nicknameHistory, lastNick.guild, lastNick.member)

LastCallRecords ==
    lastNick.guild # Null /\ lastNick.member # Null /\ ~Falsy(lastNick.nickname)

\* C2: the list is ordered most-recent-first: after a recordNickname call
\* with a guild, a member and a non-empty nickname, that nickname is at
\* index 0 of the user's list.  (A nickname that is already in the list is
\* left where it is, so the call A, B, A leaves <<B, A>>.)
C2_LatestCallAtFront ==
    LastCallRecords => (Len(LastList) > 0 /\ LastList[1] = lastNick.nickname)

-----------------------------------------------------------------------------
(* Audit lookup and the handlers that use it: claims *)

\* The latest handler run called getAuditLogExecutor
LookedUp == lastAudit.handler # "none" /\ lastAudit.types # {}

\* The age of the i-th fetched entry at the lookup
Age(i) == lastAudit.now - lastAudit.fetch.entries[i].createdTimestamp

\* The i-th fetched entry is of a requested kind, about the given target
\* (when one is given) and younger than 5000 ms
Candidate(i) ==
    /\ lastAudit.fetch.entries[i].action \in lastAudit.types
    /\ (lastAudit.targetId # Null
          => lastAudit.fetch.entries[i].targetId = lastAudit.targetId)
    /\ Age(i) < 5000

Fetched == 1..Len(lastAudit.fetch.entries)

ActorUnknown(rec) == rec.mod \in {Null, "Unknown", "Unknown/Automatic"}

\* C3: when guild.fetchAuditLogs rejects, getAuditLogExecutor does not
\* reject: it returns {executor: null, reason: null}.
C3_FailedFetchGivesNoActor ==
    (LookedUp /\ ~lastAudit.fetch.ok)
        => lastAudit.result = Fulfilled(Null, Null)

\* C4: when the audit lookup of a handler fails, the handler still completes
\* without an exception and hands its record to logEvent, with the actor
\* rendered as unknown.
C4_HandlerSurvivesFailedLookup ==
    (LookedUp /\ ~lastAudit.fetch.ok)
        => /\ lastAudit.outcome = "fulfilled"
           /\ Len(lastAudit.emitted) = 1
           /\ ActorUnknown(lastAudit.emitted[1])

\* The latest guildMemberAdd run was for a guild with a cached snapshot
JoinedTracked == lastJoin.outcome # "none" /\ lastJoin.tracked

\* C5: when the live invite fetch fails while a member-join is handled for
\* a guild that has a snapshot, the handler's promise is fulfilled and one
\* 'Member Joined' record is emitted whose invite is a placeholder, not an
\* invite code.
C5_FailedInviteFetchStillRecords ==
    (JoinedTracked /\ ~lastJoin.fetch.ok) =>
        /\ lastJoin.outcome = "fulfilled"
        /\ Len(lastJoin.emitted) = 1
        /\ lastJoin.emitted[1].title = "Member Joined"
        /\ lastJoin.emitted[1].invite \notin Codes

\* The latest logEvent call ended in its catch with code 10003 or 50001
DeliveryUnreachable ==
    lastLog.outcome = "failed" /\ lastLog.code \in {10003, 50001}

C7_KickOrLeave ==
    lastAudit.handler = "guildMemberRemove" =>
        LET kick == \E i \in Fetched :
                      /\ lastAudit.fetch.entries[i].action = "MemberKick"
                      /\ lastAudit.fetch.entries[i].targetId = lastAudit.event.member
                      /\ Age(i) < 5000
        IN  /\ Len(lastAudit.emitted) = 1
            /\ IF kick
               THEN /\ lastAudit.emitted[1].title = "Member Kicked"
                    /\ lastAudit.emitted[1].color = "Orange"
                    /\ ~ActorUnknown(lastAudit.emitted[1])
               ELSE /\ lastAudit.emitted[1].title = "Member Left/Quit"
                    /\ lastAudit.emitted[1].color = "Red"

\* C8: for a deleted message of a guild, a MessageBulkDelete entry about the
\* same channel within the window means no 'Message Deleted' record; with
\* no such entry, and an author that is not another bot, exactly one record
\* is emitted.
C8_BulkDeleteSuppresses ==
    (lastAudit.handler = "messageDelete" /\ lastAudit.guild # Null) =>
        LET bulk == \E i \in Fetched :
                      /\ lastAudit.fetch.entries[i].action = "MessageBulkDelete"
                      /\ lastAudit.fetch.entries[i].targetId = lastAudit.event.channel
                      /\ Age(i) < 5000
        IN  /\ bulk => lastAudit.emitted = <<>>
            /\ (~bulk /\ lastAudit.event.author # "otherbot")
                  => /\ Len(lastAudit.emitted) = 1
                     /\ lastAudit.emitted[1].title = "Message Deleted"

\* C9: given the fetched entries, getAuditLogExecutor returns the executor
\* of the first one, in fetched order, whose action is a requested kind,
\* whose targetId is the given one when one is given, and whose age is
\* strictly below 5000 ms; an entry aged 5000 ms or more is never the one
\* returned; with no such entry it returns executor null and reason null.
C9_FirstCandidate ==
    (LookedUp /\ lastAudit.fetch.ok) =>
        /\ lastAudit.result.settled = "fulfilled"
        /\ IF \E i \in Fetched : Candidate(i)
           THEN \E i \in Fetched :
                   /\ Candidate(i)
                   /\ \A j \in 1..(i - 1) : ~Candidate(j)
                   /\ lastAudit.result.executor = lastAudit.fetch.entries[i].executor
                   /\ lastAudit.result.reason # Null
           ELSE lastAudit.result.executor = Null /\ lastAudit.result.reason = Null
        /\ \A i \in Fetched :
              Age(i) >= 5000
                => lastAudit.result.executor # lastAudit.fetch.entries[i].executor

\* C9 witness: the first fetched entry is of the requested kind and about
\* the target but exactly 5000 ms old, and the second one, 4999 ms old, is
\* the one returned.
C9_Witness ==
    /\ LookedUp /\ lastAudit.fetch.ok /\ lastAudit.targetId # Null
    /\ Len(lastAudit.fetch.entries) = 2
    /\ lastAudit.fetch.entries[1].action \in lastAudit.types
    /\ lastAudit.fetch.entries[1].targetId = lastAudit.targetId
    /\ Age(1) = 5000
    /\ Candidate(2) /\ Age(2) = 4999
    /\ lastAudit.result.executor = lastAudit.fetch.entries[2].executor

\* The count the guild's snapshot holds for an invite code; an invite the
\* snapshot does not hold counts as never used
CachedCount(code) ==
    IF code \in DOMAIN lastJoin.cached THEN lastJoin.cached[code] ELSE 0

Exceeds(i) == lastJoin.fetch.live[i].uses > CachedCount(lastJoin.fetch.live[i].code)

\* C10: a member-join for a guild with a snapshot, handled with no other
\* handler writing that guild's snapshot in between and with a live list
\* fetched, emits one 'Member Joined' record attributed to the first invite
\* of the live list whose live use-count exceeds its cached count, and to
\* 'indeterminate' when no invite's live count exceeds its cached count.
C10_FirstIncreasedInvite ==
    (JoinedTracked /\ lastJoin.undisturbed /\ lastJoin.fetch.ok) =>
        /\ Len(lastJoin.emitted) = 1
        /\ lastJoin.emitted[1].title = "Member Joined"
        /\ IF \E i \in 1..Len(lastJoin.fetch.live) : Exceeds(i)
           THEN \E i \in 1..Len(lastJoin.fetch.live) :
                   /\ Exceeds(i)
                   /\ \A k \in 1..(i - 1) : ~Exceeds(k)
                   /\ lastJoin.emitted[1].invite = lastJoin.fetch.live[i].code
                   /\ lastJoin.emitted[1].uses = lastJoin.fetch.live[i].uses
           ELSE lastJoin.emitted[1].invite = "indeterminate"

\* C10 witness: cached {A:2, B:0}, live <<A:2, B:1>>, undisturbed: the join
\* is attributed to B, the second invite of the live list.
C10_Witness ==
    /\ JoinedTracked /\ lastJoin.undisturbed /\ lastJoin.fetch.ok
    /\ lastJoin.cached = [c \in Codes |-> IF c = "A" THEN 2 ELSE 0]
    /\ lastJoin.fetch.live = <<[code |-> "A", uses |-> 2], [code |-> "B", uses |-> 1]>>
    /\ lastJoin.emitted[1].invite = "B"

\* The snapshot client.invites holds for the guild of the latest join
SnapshotNow == heap[invites[lastJoin.guild]]

\* C11: after a member-join handler of a guild with a snapshot has fetched
\* the live list and made its comparison, the guild's cached snapshot holds
\* exactly the codes of that live list, each with its live use-count,
\* whether an invite was attributed or not.
C11_SnapshotIsLiveList ==
    (JoinedTracked /\ lastJoin.fetch.ok) =>
        /\ Has(invites, lastJoin.guild)
        /\ DOMAIN SnapshotNow =
             {lastJoin.fetch.live[i].code : i \in 1..Len(lastJoin.fetch.live)}
        /\ \A i \in 1..Len(lastJoin.fetch.live) :
              SnapshotNow[lastJoin.fetch.live[i].code] = lastJoin.fetch.live[i].uses

\* C11 witness: an 'indeterminate' join whose live list lacks an invite the
\* old snapshot held and lists another one with no use: the snapshot changed.
C11_Witness ==
    /\ JoinedTracked /\ lastJoin.fetch.ok
    /\ lastJoin.emitted[1].invite = "indeterminate"
    /\ DOMAIN lastJoin.cached = {"A"}
    /\ lastJoin.fetch.live = <<[code |-> "B", uses |-> 0]>>
    /\ SnapshotNow = [c \in {"B"} |-> 0]

\* The guilds cacheInvites has run for while the bot lacked Manage Server
PrimedWithoutPermission == primed \ GuildsManaged

\* C12: a guild that was primed while the bot lacked the permission never
\* has a snapshot afterwards, no join handler of it ever awaits an invite
\* fetch, and every member-join in it emits one 'Member Joined' record
\* saying that invite tracking is disabled.
C12_DisabledIsTerminal ==
    \A g \in PrimedWithoutPermission :
        /\ ~Has(invites, g)
        /\ \A j \in joins : j.guild # g
        /\ lastJoin.guild = g =>
              /\ ~lastJoin.tracked
              /\ lastJoin.outcome = "fulfilled"
              /\ Len(lastJoin.emitted) = 1
              /\ lastJoin.emitted[1].title = "Member Joined"
              /\ lastJoin.emitted[1].invite = "disabled"

\* C12 witness: g2 was primed without the permission, g1 has a snapshot and
\* a join handler of its own waiting, and a member has just joined g2.
C12_Witness ==
    /\ "g2" \in PrimedWithoutPermission
    /\ Has(invites, "g1")
    /\ \E j \in joins : j.guild = "g1"
    /\ lastJoin.guild = "g2"
    /\ lastJoin.emitted = <<JoinRecord("disabled", 0)>>

\* The latest run was a channelUpdate, roleUpdate or guildUpdate whose old
\* and new snapshot agree on every field the handler tracks
SameTrackedFields ==
    LET old == lastAudit.event.old
        new == lastAudit.event.new
    IN  \/ /\ lastAudit.handler = "channelUpdate"
           /\ old.name = new.name
           /\ old.topic = new.topic
           /\ old.rateLimitPerUser = new.rateLimitPerUser
           /\ old.overwrites = new.overwrites
        \/ /\ lastAudit.handler = "roleUpdate"
           /\ old.name = new.name
           /\ old.color = new.color
           /\ old.permissions = new.permissions
        \/ /\ lastAudit.handler = "guildUpdate"
           /\ old.name = new.name
           /\ old.icon = new.icon
           /\ old.verificationLevel = new.verificationLevel
           /\ old.systemChannelId = new.systemChannelId

\* C13: a channelUpdate, roleUpdate or guildUpdate whose before and after
\* snapshots differ in none of the tracked fields emits no record and makes
\* no audit lookup.
C13_NoChangeNoRecord ==
    SameTrackedFields =>
        /\ lastAudit.emitted = <<>>
        /\ lastAudit.result = NoLookup
        /\ lastAudit.outcome = "fulfilled"

\* C13 witness: a channel of a guild was moved (position, which is not
\* tracked) with every tracked field as before: nothing looked up or emitted.
C13_Witness ==
    /\ lastAudit.handler = "channelUpdate"
    /\ lastAudit.guild = "g1" /\ ~lastAudit.event.partial
    /\ SameTrackedFields
    /\ lastAudit.event.old.position # lastAudit.event.new.position
    /\ lastAudit.emitted = <<>> /\ lastAudit.result = NoLookup

\* The latest run was a guildMemberUpdate of a member known in full
MemberUpdated == lastAudit.handler = "guildMemberUpdate" /\ ~lastAudit.event.partial

\* The timeout records the latest run handed to logEvent
TimeoutTitles == {"Member Timed Out", "Timeout Ended/Removed"}

TimeoutRecordsEmitted ==
    SelectSeq(lastAudit.emitted, LAMBDA rec : rec.title \in TimeoutTitles)

\* C14: a member update whose timeout expiry is the same before and after,
\* whatever else changes, emits neither a 'Member Timed Out' nor a 'Timeout
\* Ended' record and makes no audit lookup.
C14_SameTimeoutIsSilent ==
    (MemberUpdated /\ lastAudit.event.oldTimeout = lastAudit.event.newTimeout) =>
        /\ TimeoutRecordsEmitted = <<>>
        /\ lastAudit.result = NoLookup

\* The expiry denotes a timeout in force at the time of the update
TimedOut(expiry) == expiry # 0 /\ expiry > lastAudit.now

\* C15: an update taking the member from NoTimeout (no expiry, or one not
\* in the future) to TimedOut (expiry in the future) emits exactly one
\* timeout record, 'Member Timed Out'; one taking the member from TimedOut
\* to NoTimeout emits exactly one, 'Timeout Ended'.
C15_TimeoutTransitions ==
    MemberUpdated =>
        LET old == lastAudit.event.oldTimeout
            new == lastAudit.event.newTimeout
        IN  /\ (~TimedOut(old) /\ TimedOut(new)) =>
                  /\ Len(TimeoutRecordsEmitted) = 1
                  /\ TimeoutRecordsEmitted[1].title = "Member Timed Out"
            /\ (TimedOut(old) /\ ~TimedOut(new)) =>
                  /\ Len(TimeoutRecordsEmitted) = 1
                  /\ TimeoutRecordsEmitted[1].title = "Timeout Ended/Removed"

\* The nickname the latest member update recorded: the new nickname, or the
\* username when the nickname was removed
NicknameShown ==
    IF lastAudit.event.newNick = 0 THEN Username ELSE lastAudit.event.newNick

\* C16: on a nickname change the new nickname is in the stored history when
\* the record is built, and the past nicknames the record shows are the
\* stored history without the new nickname, which never appears among
\* them, also when the member returns to a nickname already in the history.
C16_PastNicknamesExcludeNew ==
    (MemberUpdated /\ lastAudit.event.oldNick # lastAudit.event.newNick) =>
        LET stored == StoredList(nicknameHistory, lastAudit.guild,
                                 lastAudit.event.member)
            rec == lastAudit.emitted[1]
        IN  /\ Includes(stored, NicknameShown)
            /\ rec.title = "Nickname Changed (History Recorded)"
            /\ ~rec.past.none
            /\ ~Includes(rec.past.names, NicknameShown)
            /\ rec.past.names = SelectSeq(stored, LAMBDA n : n # NicknameShown)

\* C17: in every reachable state each entry of the log-channel config maps
\* a guild to a text channel of that same guild.
C17_ConfigChannelOfSameGuild ==
    \A g \in DOMAIN guildConfig :
        /\ ChannelGuild(guildConfig[g]) = g
        /\ ChannelType(guildConfig[g]) = GuildText

DeliveryFailed == lastLog.outcome \in {"failed", "rejected"}

\* C19: a logEvent call whose channel fetch or whose send was rejected, with
\* whatever error, returns normally: its promise is never rejected.
C19_LogEventNeverRejects ==
    /\ lastLog.outcome # "rejected"
    /\ DeliveryFailed =>
          /\ lastLog.outcome = "failed"
          /\ lastLog.phase \in {"fetch", "send"}
          /\ lastLog.code \in ErrorCodes

\* A send rejected with an error that carries no numeric code
C19_Witness ==
    /\ lastLog.outcome = "failed"
    /\ lastLog.phase = "send"
    /\ lastLog.code = 0

\* The latest command was one with a required capability, invoked by a
\* member who lacks it
Denied == lastCmd.name \in {"setlog", "kick", "ban"} /\ ~lastCmd.permitted

\* C20: a command invoked without its required capability has no effect
\* beyond a reply: the log-channel config is unchanged, nobody is kicked,
\* nobody is banned, and no log record is emitted.
C20_DeniedCommandOnlyReplies ==
    Denied =>
        /\ ~lastCmd.changed
        /\ lastCmd.kicked = Null
        /\ lastCmd.banned = Null
        /\ lastCmd.logged = 0

\* The parts of C20 about the config, kicks and bans alone
DeniedChangesNothing ==
    Denied =>
        /\ ~lastCmd.changed
        /\ lastCmd.kicked = Null
        /\ lastCmd.banned = Null

\* A denied !setlog emits no record
DeniedSetlogIsSilent ==
    (Denied /\ lastCmd.name = "setlog") => lastCmd.logged = 0

\* The latest join was attributed to an invite
Attributed ==
    /\ lastJoin.outcome = "fulfilled" /\ lastJoin.tracked
    /\ Has(platform.usedBy, lastJoin.member)

AttributedInvite == lastJoin.emitted[1].invite

ConsumedInvite == platform.usedBy[lastJoin.member]

\* Another handler of the guild was waiting for its fetch while this one was
Overlapped ==
    \/ ~lastJoin.undisturbed
    \/ \E j \in joins : j.guild = lastJoin.guild

\* C21: join handlers of one guild are not serialized.  A handler that runs
\* with no other handler of the guild waiting attributes the join to the
\* invite its member consumed; a wrong attribution needs two handlers that
\* overlap, and C21_Witness is such an interleaving.
C21_OnlyOverlapMisattributes ==
    (Attributed /\ ~Overlapped) => AttributedInvite = ConsumedInvite

\* Two handlers hold the same cached Collection; the one that settled first
\* was attributed the invite that the member of the waiting one consumed.
C21_Witness ==
    /\ Attributed
    /\ AttributedInvite \in Codes
    /\ AttributedInvite # ConsumedInvite
    /\ \E j \in joins :
         /\ j.guild = lastJoin.guild
         /\ j.ref = lastJoin.ref
         /\ j.member # lastJoin.member
         /\ platform.usedBy[j.member] = AttributedInvite

\* The step is a delivery that failed with an unreachable error
EvictingStep ==
    /\ lastLog' # lastLog
    /\ lastLog'.outcome = "failed"
    /\ Unreachable(lastLog'.code)

\* The guild's entry had been replaced, by a text channel of the guild,
\* since the failed delivery read its destination
Replaced ==
    /\ Has(guildConfig, lastLog'.guild)
    /\ guildConfig[lastLog'.guild] # lastLog'.channelId
    /\ ChannelGuild(guildConfig[lastLog'.guild]) = lastLog'.guild
    /\ ChannelType(guildConfig[lastLog'.guild]) = GuildText

\* C22: eviction removes only the destination that was found unreachable:
\* when setlog replaced the guild's log channel while a delivery to the old
\* one was in flight, the new entry is still there after that delivery has
\* failed with an unreachable error.
C22_EvictionSparesNewEntry ==
    [][(EvictingStep /\ Replaced) =>
          /\ Has(guildConfig', lastLog'.guild)
          /\ guildConfig'[lastLog'.guild] = guildConfig[lastLog'.guild]]_vars

\* The calls of logEvent for guild g that await their channel fetch
AwaitingFetch(bag, g) ==
    {e \in BagToSet(bag) : e.guild = g /\ e.phase = "fetch"}

\* No call of logEvent for g gets as far as fetching a channel in this step
NoNewFetch(g) ==
    \A e \in AwaitingFetch(inflight', g) :
        CopiesIn(e, inflight') <= CopiesIn(e, inflight)

\* The guild's entry was evicted: the file was written without it
Evicted(g) ==
    /\ ~Has(guildConfig, g)
    /\ configFile.exists /\ ~Has(ParseConfig(configFile.text), g)

HarmlessFailureStep ==
    /\ lastLog' # lastLog
    /\ \/ lastLog'.outcome = "failed"
          /\ lastLog'.code \notin {UnknownChannel, MissingAccess}
       \/ lastLog'.outcome = "skipped"

\* C24: a delivery failure with another code than 10003 and 50001, and a
\* destination that resolves to a channel that is no text channel, leave the
\* log-channel config and both files as they were.
C24_OtherFailuresKeepConfig ==
    [][HarmlessFailureStep =>
          /\ guildConfig' = guildConfig
          /\ configFile' = configFile
          /\ nicknameFile' = nicknameFile]_vars

\* A send failed with Missing Permissions and the guild still has the entry
\* the call had read, in memory and in the file
C24_Witness ==
    /\ lastLog.outcome = "failed" /\ lastLog.code = 50013
    /\ lastLog.phase = "send"
    /\ Has(guildConfig, lastLog.guild)
    /\ guildConfig[lastLog.guild] = lastLog.channelId
    /\ configFile.exists
    /\ ParseConfig(configFile.text) = guildConfig

\* The latest command was !setlog by an administrator, with no channel
\* mention and an argument that is no channel's id or name
SetlogUnmatched ==
    /\ lastCmd.name = "setlog" /\ lastCmd.permitted
    /\ lastCmd.input.mention = Null
    /\ lastCmd.input.arg = "nomatch"

\* C25: setlog by an administrator with an argument that matches no channel
\* uses the current channel: afterwards the guild's entry is the id of the
\* channel the command was sent in.
C25_UnmatchedUsesCurrent ==
    SetlogUnmatched =>
        /\ Has(guildConfig, lastCmd.guild)
        /\ guildConfig[lastCmd.guild] = lastCmd.input.current

\* The latest run handled a deleted message
MessageDeleted == lastAudit.handler = "messageDelete"

\* A MessageBulkDelete entry about the message's channel, within the window
BulkDeleteSeen ==
    \E i \in Fetched :
        /\ lastAudit.fetch.entries[i].action = "MessageBulkDelete"
        /\ lastAudit.fetch.entries[i].targetId = lastAudit.event.channel
        /\ Age(i) < RecencyWindow

\* C26: a deleted message outside a guild, or by a bot other than this bot,
\* emits no record; a deleted message of a guild by this bot or by an
\* unknown author is logged, unless a bulk delete suppresses it.
C26_WhichDeletesAreLogged ==
    MessageDeleted =>
        /\ (lastAudit.guild = Null \/ lastAudit.event.author = "otherbot")
              => lastAudit.emitted = <<>>
        /\ (/\ lastAudit.guild # Null
            /\ lastAudit.event.author \in {"self", "unknown"}
            /\ ~BulkDeleteSeen)
              => /\ Len(lastAudit.emitted) = 1
                 /\ lastAudit.emitted[1].title = "Message Deleted"

\* C26 for the runs whose audit-log fetch resolved
LoggedWhenFetched == lastAudit.fetch.ok => C26_WhichDeletesAreLogged

\* The latest command was a !kick or !ban that kicked or banned its target,
\* in a guild that has a log channel
KickedOrBanned ==
    /\ lastCmd.name \in {"kick", "ban"}
    /\ lastCmd.kicked # Null \/ lastCmd.banned # Null
    /\ Has(guildConfig, lastCmd.guild)

\* C27: a successful !kick or !ban invocation produces exactly one
\* 'Command Used' log record.
C27_OneCommandUsedRecord == KickedOrBanned => lastCmd.logged = 1

\* The latest run handled a voice state update of a member of a guild
VoiceUpdated ==
    /\ lastAudit.handler = "voiceStateUpdate"
    /\ lastAudit.guild # Null /\ lastAudit.event.member # Null

VoiceOld == lastAudit.event.old
VoiceNew == lastAudit.event.new

VoiceTitles == {r.title : r \in Range(lastAudit.emitted)}

\* The flags in the order the handler looks at them
FlagOrder == <<"mute", "deaf", "streaming", "selfVideo">>

FlagTitles(flag) ==
    CASE flag = "mute" -> {"User Muted", "User Unmuted"}
      [] flag = "deaf" -> {"User Deafened", "User Undeafened"}
      [] flag = "streaming" -> {"Stream Started", "Stream Stopped"}
      [] flag = "selfVideo" -> {"Video Started", "Video Stopped"}

ChangedFlags == {i \in 1..Len(FlagOrder) : VoiceOld[FlagOrder[i]] # VoiceNew[FlagOrder[i]]}

\* C28: a voiceStateUpdate emits at most one record.  A join, leave or
\* switch emits exactly one record, none of it about mute, deafen, stream
\* or video; with the channel unchanged the one record is about the first
\* of mute, deafen, stream, video that changed, and there is none when
\* none of them changed.
C28_AtMostOneVoiceRecord ==
    /\ lastAudit.handler = "voiceStateUpdate" => Len(lastAudit.emitted) <= 1
    /\ VoiceUpdated =>
          IF VoiceOld.channelId # VoiceNew.channelId
          THEN /\ Len(lastAudit.emitted) = 1
               /\ VoiceTitles =
                     {IF VoiceOld.channelId = Null THEN "Voice Joined"
                      ELSE IF VoiceNew.channelId = Null THEN "Voice Left"
                      ELSE "Voice Switched"}
          ELSE IF ChangedFlags = {}
          THEN lastAudit.emitted = <<>>
          ELSE /\ Len(lastAudit.emitted) = 1
               /\ LET first == CHOOSE i \in ChangedFlags :
                                  \A k \in ChangedFlags : i <= k
                  IN  VoiceTitles \subseteq FlagTitles(FlagOrder[first])

\* The channel is the same, mute is unchanged, deafen and video both changed:
\* the one record is the deafen one
C28_Witness ==
    /\ VoiceUpdated
    /\ VoiceOld.channelId = VoiceNew.channelId
    /\ VoiceOld.mute = VoiceNew.mute
    /\ VoiceOld.deaf # VoiceNew.deaf
    /\ VoiceOld.selfVideo # VoiceNew.selfVideo
    /\ Len(lastAudit.emitted) = 1
    /\ lastAudit.emitted[1].title \in FlagTitles("deaf")

\* The live invite at index k is not in the cached snapshot
Uncached(k) == lastJoin.fetch.live[k].code \notin DOMAIN lastJoin.cached

LiveIndexes == 1..Len(lastJoin.fetch.live)

\* C29: an invite of the live list that the cached snapshot does not hold is
\* compared as if its cached use-count were 0.  With at least one use it is
\* eligible: the join is attributed to it unless an earlier invite of the
\* list has gained a use.  An invite with 0 uses is never the attributed one.
C29_UncachedCountsAsZero ==
    (JoinedTracked /\ lastJoin.fetch.ok) =>
        /\ \A k \in LiveIndexes :
              lastJoin.fetch.live[k].uses = 0 =>
                 lastJoin.emitted[1].invite # lastJoin.fetch.live[k].code
        /\ lastJoin.undisturbed =>
              \A k \in LiveIndexes :
                 (Uncached(k) /\ lastJoin.fetch.live[k].uses >= 1) =>
                    /\ Exceeds(k)
                    /\ \E i \in 1..k :
                          lastJoin.emitted[1].invite = lastJoin.fetch.live[i].code
                    /\ (\A i \in 1..(k - 1) : ~Exceeds(i)) =>
                          lastJoin.emitted[1].invite = lastJoin.fetch.live[k].code

\* The snapshot holds A with 1 use and no B; the live list is <<A:1, B:1>>:
\* the join is attributed to the new invite B.
C29_Witness ==
    /\ JoinedTracked /\ lastJoin.undisturbed /\ lastJoin.fetch.ok
    /\ DOMAIN lastJoin.cached = {"A"}
    /\ lastJoin.cached["A"] = 1
    /\ lastJoin.fetch.live = <<[code |-> "A", uses |-> 1], [code |-> "B", uses |-> 1]>>
    /\ lastJoin.emitted[1].invite = "B"

\* One of the files that loadConfig() found could not be read or parsed
LoadFailed ==
    /\ lastLoad.loaded
    /\ \/ lastLoad.configFile.exists /\ ~lastLoad.configFile.valid
       \/ lastLoad.nicknameFile.exists /\ ~lastLoad.nicknameFile.valid

====
